---------------------------- MODULE Spec2Model ----------------------------
(***************************************************************************)
(* A model of src/json-schema.js: reference lookup, cycle-safe             *)
(* dereferencing, the Swagger -> JSON Schema node converter and the        *)
(* definition closure built by convertSchema.                              *)
(*                                                                         *)
(* JavaScript values are tagged tuples:                                    *)
(*   <<"undefined">>  <<"null">>  <<"boolean", b>>  <<"number", n>>        *)
(*   <<"string", s>>  <<"array", <<v1, ..., vn>> >>                        *)
(*   <<"object", << <<k1, v1>>, ..., <<kn, vn>> >> >>                      *)
(*   <<"object", << <<k1, v1>>, ..., <<kn, vn>> >>, prototype>>            *)
(*   <<"number", text, "double">>  (a number that is no small integer)     *)
(*   <<"function", name, home>>  <<"prototype", kind>>                     *)
(* An object is the sequence of its own enumerable properties in the order *)
(* Object.keys lists them, with distinct keys; its prototype is            *)
(* Object.prototype unless a third component names another one.  The       *)
(* built-in prototypes and their functions are values of their own, found  *)
(* by property reads along the prototype chain; a built-in function is     *)
(* told by its name and the object it is defined on.  A thrown exception   *)
(* is <<"throw", name, message>>.  lodash is taken at version 4.17.10.     *)
(***************************************************************************)
EXTENDS Integers, Sequences, FiniteSets, TLC

VARIABLES
  \* convertSchema / convertSchemaDefinitions
  op,               \* the exported function that was called
  schemaArg,        \* convertSchema's argument `schema`
  rootArg,          \* convertSchema's argument `root`
  swaggerArg,       \* convertSchema's argument `swagger`
  copyDefinitions,  \* convertSchema's fourth argument
  pc,               \* position in convertSchema
  result,           \* the local `result` of convertSchema
  references,       \* the local worklist `references` of convertSchema
  ret,              \* what the call returned or threw, once it has
  todo,             \* convertSchemaDefinitions: the number of the next callback
  out,              \* convertSchemaDefinitions: jsonSchemaDefinitions so far
  \* dereference
  dexample,         \* dereference's first argument
  droot,            \* dereference's second argument
  stack,            \* the active calls of dereference, innermost last
  dret,             \* what the outermost call returned or threw
  \* lookupReference
  lreference, lroot, ldepth, lret

cvars == <<op, schemaArg, rootArg, swaggerArg, copyDefinitions, pc, result, references,
           ret, todo, out>>
dvars == <<dexample, droot, stack, dret>>
lvars == <<lreference, lroot, ldepth, lret>>
vars == <<cvars, dvars, lvars>>

----------------------------------------------------------------------------
(* JavaScript values *)

Undefined == <<"undefined">>
Null == <<"null">>
Bool(b) == <<"boolean", b>>
Num(n) == <<"number", n>>
Str(s) == <<"string", s>>
Arr(s) == <<"array", s>>
Obj(p) == <<"object", p>>
Fn(name, home) == <<"function", name, home>>
\* a number that is not an integer of 32 bits, as text
Double(text) == <<"number", text, "double">>
Proto(kind) == <<"prototype", kind>>
Throw(name, message) == <<"throw", name, message>>
TypeError == Throw("TypeError", "")

typeOf(v) == v[1]
isThrow(v) == v[1] = "throw"
isString(v) == v[1] = "string"
isNullish(v) == v[1] \in {"undefined", "null"}
\* an object written as a literal or built by assignments to one
isPlainObject(v) == v[1] = "object"
\* _.isFunction; Function.prototype is a function
isFunction(v) == v[1] = "function" \/ v = Proto("Function")
\* _.isArray and Array.isArray; Array.prototype is an array with no elements
isArray(v) == v[1] = "array" \/ v = Proto("Array")
\* _.isObject: everything but the primitives
isObject(v) == v[1] \in {"array", "object", "function", "prototype"}
\* typeof v === 'object'
typeofObject(v) ==
  \/ v[1] \in {"null", "array", "object"}
  \/ v[1] = "prototype" /\ v[2] # "Function"

\* the elements of an array
elements(v) == IF v[1] = "array" THEN v[2] ELSE <<>>

\* ToBoolean: of the numbers, 0, -0 and NaN are falsy
Truthy(v) ==
  CASE v[1] \in {"undefined", "null"} -> FALSE
    [] v[1] = "boolean" -> v[2]
    [] v[1] = "number" -> IF Len(v) = 3 THEN v[2] \notin {"NaN", "-0"} ELSE v[2] # 0
    [] v[1] = "string" -> v[2] # ""
    [] OTHER -> TRUE

\* F(e), with e evaluated once
Let(e, F(_)) == CHOOSE r \in {F(v) : v \in {e}} : TRUE

Last(s) == s[Len(s)]
Front(s) == SubSeq(s, 1, Len(s) - 1)

\* Array.prototype.reverse
Reverse(s) == Let(s, LAMBDA a : [i \in 1..Len(a) |-> a[Len(a) + 1 - i]])

Digits == <<"0", "1", "2", "3", "4", "5", "6", "7", "8", "9">>

\* Number.prototype.toString for a natural number
RECURSIVE NatToString(_)
NatToString(n) ==
  IF n < 10 THEN Digits[n + 1] ELSE NatToString(n \div 10) \o Digits[(n % 10) + 1]

\* the digit at position i of a string of digits
digitAt(s, i) == (CHOOSE d \in 1..10 : Digits[d] = SubSeq(s, i, i)) - 1

\* a < b for two numbers written in decimal without leading zeros
numericLess(a, b) ==
  \/ Len(a) < Len(b)
  \/ /\ Len(a) = Len(b)
     /\ \E i \in 1..Len(a) :
          /\ SubSeq(a, 1, i - 1) = SubSeq(b, 1, i - 1)
          /\ digitAt(a, i) < digitAt(b, i)

\* the key is an array index in canonical form: 0 .. 2^32 - 2, no leading zero
isIndexKey(k) ==
  /\ Len(k) \in 1..10
  /\ \A i \in 1..Len(k) : \E d \in 1..10 : Digits[d] = SubSeq(k, i, i)
  /\ Len(k) = 1 \/ SubSeq(k, 1, 1) # "0"
  /\ numericLess(k, "4294967295")

\* a natural number in decimal, without a leading zero
isNatText(s) ==
  /\ Len(s) >= 1
  /\ \A i \in 1..Len(s) : \E d \in 1..10 : Digits[d] = SubSeq(s, i, i)
  /\ Len(s) = 1 \/ SubSeq(s, 1, 1) # "0"

\* the decimal of the natural number after the one s is the decimal of
RECURSIVE successorText(_)
successorText(s) ==
  IF s = "" THEN "1"
  ELSE Let(digitAt(s, Len(s)), LAMBDA d :
         IF d < 9 THEN SubSeq(s, 1, Len(s) - 1) \o Digits[d + 2]
         ELSE successorText(SubSeq(s, 1, Len(s) - 1)) \o "0")

\* String(n) for a number n
numberText(n) == IF Len(n) = 3 THEN n[2] ELSE NatToString(n[2])

\* index + 1 for a natural number; the integers of 32 bits are <<"number", n>>
increment(index) ==
  IF Len(index) = 3 THEN Double(successorText(index[2]))
  ELSE IF index[2] < 2147483647 THEN Num(index[2] + 1)
  ELSE Double("2147483648")

\* index < length for two natural numbers
indexLess(index, length) == numericLess(numberText(index), numberText(length))

\* String.prototype.startsWith
startsWith(s, prefix) ==
  Len(prefix) <= Len(s) /\ SubSeq(s, 1, Len(prefix)) = prefix

\* String.prototype.includes
includes(s, part) ==
  \E i \in 1..(Len(s) - Len(part) + 1) : SubSeq(s, i, i + Len(part) - 1) = part

\* the first position from i on where s holds sep, Len(s) + 1 if there is none
RECURSIVE IndexFrom(_, _, _)
IndexFrom(s, sep, i) ==
  IF i > Len(s) \/ SubSeq(s, i, i) = sep THEN i ELSE IndexFrom(s, sep, i + 1)

\* String.prototype.split with a one-character separator, from position i
RECURSIVE SplitFrom(_, _, _)
SplitFrom(s, sep, i) ==
  Let(IndexFrom(s, sep, i), LAMBDA j :
    IF j > Len(s) THEN <<SubSeq(s, i, Len(s))>>
    ELSE <<SubSeq(s, i, j - 1)>> \o SplitFrom(s, sep, j + 1))

split(s, sep) == Let(s, LAMBDA v : SplitFrom(v, sep, 1))

\* Array.prototype.join
RECURSIVE JoinFrom(_, _, _)
JoinFrom(a, sep, i) ==
  IF i > Len(a) THEN ""
  ELSE IF i = Len(a) THEN a[i]
  ELSE a[i] \o sep \o JoinFrom(a, sep, i + 1)

join(a, sep) == Let(a, LAMBDA v : JoinFrom(v, sep, 1))

(* The built-in objects a property read can reach from a JSON value: the   *)
(* prototypes of the six kinds below, their constructors and the functions *)
(* that are properties of either.  A function is told by its name and by   *)
(* its home, the object it was created as a property of: "global" for the  *)
(* constructors and for parseFloat and parseInt, "Array" for the static    *)
(* functions of Array, "Array.prototype" for the methods of arrays.  The   *)
(* tables are those of ECMAScript 2024 with Array.fromAsync.               *)

Kinds == {"Object", "Array", "String", "Number", "Boolean", "Function"}

Constructor(kind) == Fn(kind, "global")

isConstructor(v) == v[1] = "function" /\ v[3] = "global" /\ v[2] \in Kinds

\* the methods of the prototypes
ObjectMembers ==
  {"__defineGetter__", "__defineSetter__", "hasOwnProperty", "__lookupGetter__",
   "__lookupSetter__", "isPrototypeOf", "propertyIsEnumerable", "toString",
   "valueOf", "toLocaleString"}

ArrayMembers ==
  {"at", "concat", "copyWithin", "fill", "find", "findIndex", "findLast",
   "findLastIndex", "lastIndexOf", "pop", "push", "reverse", "shift", "unshift",
   "slice", "sort", "splice", "includes", "indexOf", "join", "keys", "entries",
   "values", "forEach", "filter", "flat", "flatMap", "map", "every", "some",
   "reduce", "reduceRight", "toLocaleString", "toString", "toReversed",
   "toSorted", "toSpliced", "with"}

StringMembers ==
  {"anchor", "at", "big", "blink", "bold", "charAt", "charCodeAt", "codePointAt",
   "concat", "endsWith", "fontcolor", "fontsize", "fixed", "includes", "indexOf",
   "isWellFormed", "italics", "lastIndexOf", "link", "localeCompare", "match",
   "matchAll", "normalize", "padEnd", "padStart", "repeat", "replace",
   "replaceAll", "search", "slice", "small", "split", "strike", "sub", "substr",
   "substring", "sup", "startsWith", "toString", "toWellFormed", "trim",
   "trimStart", "trimLeft", "trimEnd", "trimRight", "toLocaleLowerCase",
   "toLocaleUpperCase", "toLowerCase", "toUpperCase", "valueOf"}

NumberMembers ==
  {"toExponential", "toFixed", "toPrecision", "toString", "valueOf",
   "toLocaleString"}

BooleanMembers == {"toString", "valueOf"}

FunctionMembers == {"apply", "bind", "call", "toString"}

Members(kind) ==
  CASE kind = "Object" -> ObjectMembers
    [] kind = "Array" -> ArrayMembers
    [] kind = "String" -> StringMembers
    [] kind = "Number" -> NumberMembers
    [] kind = "Boolean" -> BooleanMembers
    [] kind = "Function" -> FunctionMembers

\* the static functions of the constructors
ObjectStatics ==
  {"assign", "getOwnPropertyDescriptor", "getOwnPropertyDescriptors",
   "getOwnPropertyNames", "getOwnPropertySymbols", "hasOwn", "is",
   "preventExtensions", "seal", "create", "defineProperties", "defineProperty",
   "freeze", "getPrototypeOf", "setPrototypeOf", "isExtensible", "isFrozen",
   "isSealed", "keys", "entries", "fromEntries", "values", "groupBy"}

ArrayStatics == {"isArray", "from", "fromAsync", "of"}

StringStatics == {"fromCharCode", "fromCodePoint", "raw"}

NumberStatics ==
  {"isFinite", "isInteger", "isNaN", "isSafeInteger", "parseFloat", "parseInt"}

Statics(kind) ==
  CASE kind = "Object" -> ObjectStatics
    [] kind = "Array" -> ArrayStatics
    [] kind = "String" -> StringStatics
    [] kind = "Number" -> NumberStatics
    [] OTHER -> {}

\* the numbers that are properties of Number, as Number.prototype.toString
\* writes them
NumberConstants ==
  [MAX_VALUE |-> "1.7976931348623157e+308", MIN_VALUE |-> "5e-324",
   NaN |-> "NaN", NEGATIVE_INFINITY |-> "-Infinity",
   POSITIVE_INFINITY |-> "Infinity", MAX_SAFE_INTEGER |-> "9007199254740991",
   MIN_SAFE_INTEGER |-> "-9007199254740991", EPSILON |-> "2.220446049250313e-16"]

\* the function a method key of a prototype holds: trimLeft and trimRight are
\* the functions trimStart and trimEnd
Method(kind, k) ==
  Fn(IF k = "trimLeft" THEN "trimStart" ELSE IF k = "trimRight" THEN "trimEnd" ELSE k,
     kind \o ".prototype")

\* the function a static key of a constructor holds: Number.parseFloat and
\* Number.parseInt are the global functions
Static(kind, k) ==
  Fn(k, IF k \in {"parseFloat", "parseInt"} THEN "global" ELSE kind)

\* the functions whose `length` is not 1
ArityZero ==
  {<<"Array", "of">>}
  \cup {<<"Object.prototype", n>> : n \in {"toString", "valueOf", "toLocaleString"}}
  \cup {<<"Array.prototype", n>> :
          n \in {"pop", "reverse", "shift", "keys", "entries", "values", "flat",
                 "toLocaleString", "toString", "toReversed"}}
  \cup {<<"String.prototype", n>> :
          n \in {"big", "blink", "bold", "fixed", "isWellFormed", "italics",
                 "normalize", "small", "strike", "sub", "sup", "toString",
                 "toWellFormed", "trim", "trimStart", "trimEnd",
                 "toLocaleLowerCase", "toLocaleUpperCase", "toLowerCase",
                 "toUpperCase", "valueOf"}}
  \cup {<<"Number.prototype", n>> : n \in {"valueOf", "toLocaleString"}}
  \cup {<<"Boolean.prototype", n>> : n \in {"toString", "valueOf"}}
  \cup {<<"Function.prototype", "toString">>}

ArityTwo ==
  {<<"global", "parseInt">>, <<"Function.prototype", "apply">>}
  \cup {<<"Object", n>> :
          n \in {"assign", "getOwnPropertyDescriptor", "hasOwn", "is", "create",
                 "defineProperties", "setPrototypeOf", "groupBy"}}
  \cup {<<"Object.prototype", n>> : n \in {"__defineGetter__", "__defineSetter__"}}
  \cup {<<"Array.prototype", n>> :
          n \in {"copyWithin", "slice", "splice", "toSpliced", "with"}}
  \cup {<<"String.prototype", n>> :
          n \in {"replace", "replaceAll", "slice", "split", "substr", "substring"}}

\* the `length` of a built-in function
Arity(f) ==
  IF <<f[3], f[2]>> \in ArityZero THEN 0
  ELSE IF <<f[3], f[2]>> \in ArityTwo THEN 2
  ELSE IF f = Fn("defineProperty", "Object") THEN 3
  ELSE 1

\* own properties of an object, in the order Object.keys lists them
HasOwn(o, k) == \E i \in 1..Len(o[2]) : o[2][i][1] = k
OwnValue(o, k) == o[2][CHOOSE i \in 1..Len(o[2]) : o[2][i][1] = k][2]

\* the index an array-index key names, or -1
IndexOfKey(k, len) ==
  IF \E i \in 0..(len - 1) : NatToString(i) = k
  THEN CHOOSE i \in 0..(len - 1) : NatToString(i) = k
  ELSE -1

\* Object.prototype.hasOwnProperty, for a value that is neither null nor
\* undefined
hasOwnProperty(v, k) ==
  CASE v[1] = "object" -> HasOwn(v, k)
    [] v[1] \in {"array", "string"} -> k = "length" \/ IndexOfKey(k, Len(v[2])) >= 0
    [] v[1] = "function" ->
         \/ k \in {"name", "length"}
         \/ /\ isConstructor(v)
            /\ \/ k = "prototype"
               \/ k \in Statics(v[2])
               \/ v[2] = "Number" /\ k \in DOMAIN NumberConstants
    [] v[1] = "prototype" ->
         \/ k = "constructor"
         \/ k \in Members(v[2])
         \/ k = "length" /\ v[2] \in {"Array", "String", "Function"}
         \/ k = "name" /\ v[2] = "Function"
         \/ k = "__proto__" /\ v[2] = "Object"
         \/ k \in {"caller", "arguments"} /\ v[2] = "Function"
    [] OTHER -> FALSE

\* Object.getPrototypeOf(Object(v)); an object whose prototype was replaced
\* carries the new one as its third component
protoOf(v) ==
  CASE v[1] = "object" -> IF Len(v) = 3 THEN v[3] ELSE Proto("Object")
    [] v[1] = "array" -> Proto("Array")
    [] v[1] = "string" -> Proto("String")
    [] v[1] = "number" -> Proto("Number")
    [] v[1] = "boolean" -> Proto("Boolean")
    [] v[1] = "function" -> Proto("Function")
    [] v[1] = "prototype" -> IF v[2] = "Object" THEN Null ELSE Proto("Object")
    [] OTHER -> Null

\* the value of the own property k of holder, read for receiver: the getter
\* of Object.prototype.__proto__ gives the prototype of the receiver, those of
\* Function.prototype.caller and .arguments throw
propertyOf(holder, k, receiver) ==
  CASE holder[1] = "object" -> OwnValue(holder, k)
    [] holder[1] = "array" ->
         IF k = "length" THEN Num(Len(holder[2]))
         ELSE holder[2][IndexOfKey(k, Len(holder[2])) + 1]
    [] holder[1] = "string" ->
         IF k = "length" THEN Num(Len(holder[2]))
         ELSE Let(IndexOfKey(k, Len(holder[2])), LAMBDA i :
                Str(SubSeq(holder[2], i + 1, i + 1)))
    [] holder[1] = "function" ->
         IF k = "name" THEN Str(holder[2])
         ELSE IF k = "length" THEN Num(Arity(holder))
         ELSE IF k = "prototype" THEN Proto(holder[2])
         ELSE IF k \in Statics(holder[2]) THEN Static(holder[2], k)
         ELSE Double(NumberConstants[k])
    [] holder[1] = "prototype" ->
         IF k = "constructor" THEN Constructor(holder[2])
         ELSE IF k = "length" THEN Num(0)
         ELSE IF k = "name" THEN Str("")
         ELSE IF k = "__proto__" THEN protoOf(receiver)
         ELSE IF k \in {"caller", "arguments"} THEN TypeError
         ELSE Method(holder[2], k)

\* the value of an own property of v
ownProperty(v, k) == propertyOf(v, k, v)

\* Object.prototype is on the prototype chain of v
RECURSIVE inheritsObject(_)
inheritsObject(v) ==
  \/ v = Proto("Object")
  \/ protoOf(v) # Null /\ inheritsObject(protoOf(v))

\* [[Get]]: the property k of the first object that has it, from holder up
\* the prototype chain, read for receiver
RECURSIVE getFrom(_, _, _)
getFrom(holder, k, receiver) ==
  IF hasOwnProperty(holder, k) THEN propertyOf(holder, k, receiver)
  ELSE Let(protoOf(holder), LAMBDA p :
         IF p = Null THEN Undefined ELSE getFrom(p, k, receiver))

\* v[k] for a value v that is neither null nor undefined
Get(v, k) == getFrom(v, k, v)

\* the object o with the own properties p
withPairs(o, p) == IF Len(o) = 3 THEN <<"object", p, o[3]>> ELSE Obj(p)

\* where a new own key is listed: array indices first, in ascending order,
\* then the other keys in the order of their creation
insertAt(p, k) ==
  IF isIndexKey(k)
  THEN 1 + Cardinality({i \in 1..Len(p) :
                          /\ isIndexKey(p[i][1])
                          /\ numericLess(p[i][1], k)})
  ELSE Len(p) + 1

\* o[k] = v on an object o: an own property is overwritten in place;
\* __proto__ reaches the setter of Object.prototype, which replaces the
\* prototype by an object or null and ignores everything else; any other key
\* becomes a new own property
Put(o, k, v) ==
  IF HasOwn(o, k)
  THEN withPairs(o, [i \in 1..Len(o[2]) |-> IF o[2][i][1] = k THEN <<k, v>> ELSE o[2][i]])
  ELSE IF k = "__proto__" /\ inheritsObject(o)
  THEN IF v = Proto("Object") THEN Obj(o[2])
       ELSE IF isObject(v) \/ v = Null THEN <<"object", o[2], v>>
       ELSE o
  ELSE Let(insertAt(o[2], k), LAMBDA at :
         withPairs(o, SubSeq(o[2], 1, at - 1) \o <<<<k, v>>>> \o
                      SubSeq(o[2], at, Len(o[2]))))

\* the properties p without those whose key is in drop, order kept
RECURSIVE FilterFrom(_, _, _)
FilterFrom(p, drop, i) ==
  IF i > Len(p) THEN <<>>
  ELSE IF p[i][1] \in drop THEN FilterFrom(p, drop, i + 1)
  ELSE <<p[i]>> \o FilterFrom(p, drop, i + 1)

\* the own enumerable properties of a value, as Object.keys and Object.values
\* see them
OwnPairs(v) ==
  CASE v[1] = "object" -> v[2]
    [] v[1] = "array" -> [i \in 1..Len(v[2]) |-> <<NatToString(i - 1), v[2][i]>>]
    [] v[1] = "string" ->
         [i \in 1..Len(v[2]) |-> <<NatToString(i - 1), Str(SubSeq(v[2], i, i))>>]
    [] OTHER -> <<>>

\* the enumerable properties for...in visits: the own ones, then those of the
\* prototype chain that no earlier one hides
RECURSIVE PairsIn(_)
PairsIn(v) ==
  IF v[1] = "object" /\ Len(v) = 3 /\ v[3] # Null
  THEN Let(OwnPairs(v), LAMBDA own :
         own \o FilterFrom(PairsIn(v[3]), {own[i][1] : i \in 1..Len(own)}, 1))
  ELSE OwnPairs(v)

\* lodash isLength: a number that is an integer from 0 to 2^53 - 1
isLength(value) ==
  /\ value[1] = "number"
  /\ IF Len(value) = 2 THEN value[2] >= 0
     ELSE \/ value[2] = "-0"
          \/ isNatText(value[2]) /\ ~numericLess("9007199254740991", value[2])

\* lodash isArrayLike: not a function, and with a length that isLength accepts
isArrayLike(v) ==
  /\ ~isNullish(v)
  /\ ~isFunction(v)
  /\ Let(Get(v, "length"), LAMBDA n : isLength(n))

\* the number of callbacks of _.forEach: the length of an array or of an
\* array-like value, else the number of own enumerable keys
forEachLength(collection) ==
  IF isNullish(collection) THEN Num(0)
  ELSE IF isArray(collection) THEN Num(Len(elements(collection)))
  ELSE IF isArrayLike(collection)
  THEN Let(Get(collection, "length"), LAMBDA n :
         IF n = Double("-0") THEN Num(0) ELSE n)
  ELSE Num(Len(OwnPairs(collection)))

\* the key _.forEach hands to callback number index, counted from 0: the index
\* itself for an array or an array-like value, else the own enumerable key at
\* that place
forEachKey(collection, index) ==
  IF isArray(collection) \/ isArrayLike(collection) THEN index
  ELSE Str(OwnPairs(collection)[index[2] + 1][1])

\* ToPropertyKey of a string or of a natural number
keyString(key) == IF key[1] = "number" THEN numberText(key) ELSE key[2]

----------------------------------------------------------------------------
(* lookupReference *)

ErrRoot == Throw("Error", "Schema reference must start with document root (#)")
ErrTarget == Throw("Error", "Schema reference must be reference to #/definitions")
ErrNotFound(reference) ==
  Throw("Error", "Reference to " \o reference \o " does not exist")

\* a lookup that never stops at the depth it is given
depthReached_never(depth, currentDepth) == FALSE

\* line 58
depthReached(depth, currentDepth) == Truthy(depth) /\ depth = Num(currentDepth)

\* value[key], which throws when value is null or the property is an accessor
\* that throws
read(value, key) == IF isNullish(value) THEN TypeError ELSE Get(value, key)

\* the while loop of lookupReference; parts is reversed, as in the code, and
\* its first n elements are the ones not yet popped
RECURSIVE lookupWalk(_, _, _, _, _)
lookupWalk(parts, n, value, currentDepth, depth) ==
  IF n > 0 /\ value # Undefined
  THEN Let(read(value, parts[n]), LAMBDA next :
         IF isThrow(next) \/ depthReached(depth, currentDepth + 1)
         THEN next
         ELSE lookupWalk(parts, n - 1, next, currentDepth + 1, depth))
  ELSE value

\* a lookup that walks root.definitions whatever the second segment is
lookupReference_anyTarget(reference, root, depth) ==
  Let(Reverse(split(reference, "/")), LAMBDA parts :
    IF Last(parts) # "#" THEN ErrRoot
    ELSE Let(read(root, "definitions"), LAMBDA definitions :
         IF isThrow(definitions) THEN definitions
         ELSE Let(lookupWalk(parts, Len(parts) - 2, definitions, 2, depth),
             LAMBDA value :
               IF isThrow(value) THEN value
               ELSE IF value = Undefined THEN ErrNotFound(reference)
               ELSE Obj(<< <<"id", IF Len(parts) <= 2 THEN Undefined
                                   ELSE Str(parts[Len(parts) - 2])>>,
                           <<"referenced", value>> >>))))

lookupReference(reference, root, depth) ==
  Let(Reverse(split(reference, "/")), LAMBDA parts :
    IF Last(parts) # "#" THEN ErrRoot
    ELSE IF Len(parts) < 2 \/ parts[Len(parts) - 1] # "definitions" THEN ErrTarget
    ELSE Let(read(root, "definitions"), LAMBDA definitions :
         IF isThrow(definitions) THEN definitions
         ELSE Let(lookupWalk(parts, Len(parts) - 2, definitions, 2, depth),
             LAMBDA value :
               IF isThrow(value) THEN value
               ELSE IF value = Undefined THEN ErrNotFound(reference)
               ELSE Obj(<< <<"id", IF Len(parts) = 2 THEN Undefined
                                   ELSE Str(parts[Len(parts) - 2])>>,
                           <<"referenced", value>> >>))))

----------------------------------------------------------------------------
(* dereference *)

\* (a || []) for an optional array
orEmpty(a) == IF Truthy(a) THEN a ELSE Arr(<<>>)

\* the strings Array.prototype.join joins: the elements of an array of
\* strings and indices
strings(a) == [i \in 1..Len(a[2]) |-> keyString(a[2][i])]

\* the array of JavaScript strings holding the TLA+ strings of s
stringArray(s) == Arr([i \in 1..Len(s) |-> Str(s[i])])

pathHasCircularReference(paths, path, reference) ==
  Let(join(strings(orEmpty(path)), "/"), LAMBDA currentPath :
    \/ startsWith(currentPath, reference)
    \/ Let(orEmpty(paths)[2], LAMBDA ps :
         \E i \in 1..Len(ps) : startsWith(ps[i][2], reference)))

\* example.$ref && _.isString(example.$ref)
isReference(example) ==
  Truthy(Get(example, "$ref")) /\ isString(Get(example, "$ref"))

\* the first exception among the results s from position i on, else undefined
RECURSIVE firstThrow(_, _)
firstThrow(s, i) ==
  IF i > Len(s) THEN Undefined
  ELSE IF isThrow(s[i]) THEN s[i] ELSE firstThrow(s, i + 1)

\* the array of the results s, or the first exception among them
collectArray(results) ==
  Let(results, LAMBDA s :
    Let(firstThrow(s, 1), LAMBDA t : IF t # Undefined THEN t ELSE Arr(s)))

\* (path || []).concat([key])
concatKey(path, key) == Arr(Append(orEmpty(path)[2], key))

\* (paths || []).concat([currentPath])
newPaths(paths, path) ==
  Arr(Append(orEmpty(paths)[2], Str(join(strings(orEmpty(path)), "/"))))

\* a mark for a circular reference other than null
circularValue_undefined == Undefined

\* line 99
circularValue == Null

RECURSIVE dereference(_, _, _, _)

\* lines 115-117: the callbacks of _.forEach from number index on, each
\* storing what its call returns under its key; the object built, or the
\* exception of the first call that throws
RECURSIVE dereferenceEach(_, _, _, _, _, _)
dereferenceEach(example, root, paths, path, index, built) ==
  IF ~indexLess(index, forEachLength(example)) THEN built
  ELSE Let(forEachKey(example, index), LAMBDA key :
       Let(dereference(Get(example, keyString(key)), root, paths,
                       concatKey(path, key)), LAMBDA value :
         IF isThrow(value) THEN value
         ELSE dereferenceEach(example, root, paths, path, increment(index),
                              Put(built, keyString(key), value))))

dereference(example, root, paths, path) ==
  IF example = Null \/ example = Undefined THEN example
  ELSE IF isReference(example)
  THEN Let(Get(example, "$ref")[2], LAMBDA reference :
         IF Truthy(path) /\ pathHasCircularReference(paths, path, reference)
         THEN circularValue
         ELSE Let(lookupReference(reference, root, Undefined), LAMBDA ref :
                IF isThrow(ref) THEN ref
                ELSE Let(newPaths(paths, path), LAMBDA np :
                     Let(stringArray(split(reference, "/")), LAMBDA refPath :
                       dereference(Get(ref, "referenced"), root, np, refPath)))))
  ELSE IF isArray(example)
  THEN Let(elements(example), LAMBDA values :
         collectArray([i \in 1..Len(values) |->
                         dereference(values[i], root, paths, path)]))
  ELSE IF isObject(example)
  THEN dereferenceEach(example, root, paths, path, Num(0), Obj(<<>>))
  ELSE example

(* dereference, one call at a time.  A frame of the stack is one active    *)
(* call: its arguments, the index of the child it handles next, counted    *)
(* from 0 as map and _.forEach count, and the array or object built from   *)
(* the results of the children it has handled.  `return dereference(...)`  *)
(* of a followed reference hands its result on unchanged, so the callee's  *)
(* frame takes the caller's place.                                         *)

Running == <<"running">>

Frame(example, paths, path) ==
  [example |-> example, paths |-> paths, path |-> path, next |-> Num(0),
   acc |-> IF isArray(example) THEN Arr(<<>>) ELSE Obj(<<>>)]

top == Last(stack)

\* the callback frame has just run has returned v: an element of the array
\* map builds (line 109), or result[key] = v (line 116)
storeResult(frame, v) ==
  IF isArray(frame.example) THEN Arr(Append(frame.acc[2], v))
  ELSE Put(frame.acc, keyString(forEachKey(frame.example, frame.next)), v)

\* the innermost call returns v
derefReturn(v) ==
  LET rest == Front(stack)
  IN IF rest = <<>>
     THEN stack' = <<>> /\ dret' = v
     ELSE /\ stack' = Front(rest) \o
                 <<[Last(rest) EXCEPT !.acc = storeResult(Last(rest), v),
                                      !.next = increment(@)]>>
          /\ dret' = dret

\* lines 90-92 and 122: null, undefined and scalars are returned as they are
derefScalar ==
  /\ stack # <<>>
  /\ \/ isNullish(top.example)
     \/ ~isReference(top.example) /\ ~isObject(top.example)
  /\ derefReturn(top.example)
  /\ UNCHANGED <<dexample, droot, cvars, lvars>>

\* lines 98-100: a reference the cycle check refuses
derefCircular ==
  /\ stack # <<>>
  /\ ~isNullish(top.example)
  /\ isReference(top.example)
  /\ Truthy(top.path)
  /\ pathHasCircularReference(top.paths, top.path, Get(top.example, "$ref")[2])
  /\ derefReturn(circularValue)
  /\ UNCHANGED <<dexample, droot, cvars, lvars>>

\* lines 102-105: a reference that is followed (or whose lookup throws)
derefFollow ==
  /\ stack # <<>>
  /\ ~isNullish(top.example)
  /\ isReference(top.example)
  /\ ~(Truthy(top.path) /\
       pathHasCircularReference(top.paths, top.path, Get(top.example, "$ref")[2]))
  /\ \E ref \in {lookupReference(Get(top.example, "$ref")[2], droot, Undefined)} :
       IF isThrow(ref)
       THEN stack' = <<>> /\ dret' = ref
       ELSE /\ stack' = Front(stack) \o
                   <<Frame(Get(ref, "referenced"), newPaths(top.paths, top.path),
                           stringArray(split(Get(top.example, "$ref")[2], "/")))>>
            /\ dret' = dret
  /\ UNCHANGED <<dexample, droot, cvars, lvars>>

\* lines 108-117: the next element of an array, the next value _.forEach
\* visits in an object
derefDescend ==
  /\ stack # <<>>
  /\ ~isNullish(top.example)
  /\ ~isReference(top.example)
  /\ isObject(top.example)
  /\ indexLess(top.next, forEachLength(top.example))
  /\ stack' = Append(stack,
       IF isArray(top.example)
       THEN Frame(elements(top.example)[top.next[2] + 1], top.paths, top.path)
       ELSE LET key == forEachKey(top.example, top.next)
            IN Frame(Get(top.example, keyString(key)), top.paths,
                     concatKey(top.path, key)))
  /\ UNCHANGED <<dexample, droot, dret, cvars, lvars>>

\* lines 109 and 119: the array or object built from the children's results
derefCollect ==
  /\ stack # <<>>
  /\ ~isNullish(top.example)
  /\ ~isReference(top.example)
  /\ isObject(top.example)
  /\ ~indexLess(top.next, forEachLength(top.example))
  /\ derefReturn(top.acc)
  /\ UNCHANGED <<dexample, droot, cvars, lvars>>

----------------------------------------------------------------------------
(* convertSubSchema *)

\* a key list that forgets xml
SwaggerOnlyKeys_noXml == {"discriminator", "readOnly", "externalDocs", "example"}

\* line 133: the keys _.omit removes
SwaggerOnlyKeys == {"discriminator", "readOnly", "xml", "externalDocs", "example"}

isExtension(value, key) == startsWith(key, "x-")

\* _.omit(object, keys): a new object with the enumerable properties of
\* object, its own and the inherited ones, but for those named by keys
omit(object, keys) == Let(PairsIn(object), LAMBDA p : Obj(FilterFrom(p, keys, 1)))

\* the properties p from position i on without the extensions, order kept
RECURSIVE OmitByFrom(_, _)
OmitByFrom(p, i) ==
  IF i > Len(p) THEN <<>>
  ELSE IF isExtension(p[i][2], p[i][1]) THEN OmitByFrom(p, i + 1)
  ELSE <<p[i]>> \o OmitByFrom(p, i + 1)

\* line 134, _.omitBy(object, isExtension): a new object with the enumerable
\* properties of object, its own and the inherited ones, that are no
\* extensions, each an own property of the new object whatever its key
omitBy(object) == Let(PairsIn(object), LAMBDA p : Obj(OmitByFrom(p, 1)))

\* _.cloneDeep: a structurally equal copy
cloneDeep(value) == value

\* lines 137-140
fileType(actualSchema, schema) ==
  IF Get(schema, "type") = Str("file")
  THEN Put(actualSchema, "type", Str("string"))
  ELSE actualSchema

\* lines 142-144: the result is actualSchema, or what dereference threw
exampleToExamples(actualSchema, schema, swagger) ==
  IF Truthy(Get(schema, "example"))
  THEN Let(dereference(Get(schema, "example"), swagger, Undefined, Undefined),
           LAMBDA d : IF isThrow(d) THEN d
                      ELSE Put(actualSchema, "examples", Arr(<<d>>)))
  ELSE actualSchema

\* lines 147-151
nullableType(actualSchema) ==
  IF Truthy(Get(actualSchema, "type"))
  THEN Put(actualSchema, "type", Arr(<<Get(actualSchema, "type"), Str("null")>>))
  ELSE IF Get(actualSchema, "enum") = Undefined
  THEN Put(actualSchema, "type", Str("null"))
  ELSE actualSchema

\* lines 153-155: arrays and strings have includes, arrays alone have push
nullableEnum(actualSchema) ==
  Let(Get(actualSchema, "enum"), LAMBDA enum :
    IF ~Truthy(enum) THEN actualSchema
    ELSE IF isString(enum)
    THEN IF includes(enum[2], "null") THEN actualSchema ELSE TypeError
    ELSE IF enum[1] # "array" THEN TypeError
    ELSE IF \E i \in 1..Len(enum[2]) : enum[2][i] = Null THEN actualSchema
    ELSE Put(actualSchema, "enum", Arr(Append(enum[2], Null))))

\* a nullable fixup whose enum branch fires only when the type branch did not
nullable_typeOnly(actualSchema, schema) ==
  IF isThrow(actualSchema) \/ ~Truthy(Get(schema, "x-nullable")) THEN actualSchema
  ELSE IF Truthy(Get(actualSchema, "type")) THEN nullableType(actualSchema)
  ELSE Let(nullableType(actualSchema), LAMBDA typed : nullableEnum(typed))

\* lines 146-156
nullable(actualSchema, schema) ==
  IF isThrow(actualSchema) \/ ~Truthy(Get(schema, "x-nullable")) THEN actualSchema
  ELSE Let(nullableType(actualSchema), LAMBDA typed : nullableEnum(typed))

\* <<the references of the conversions cs, in order>>
RECURSIVE ReferencesFrom(_, _)
ReferencesFrom(cs, i) ==
  IF i > Len(cs) THEN <<>> ELSE cs[i][2] \o ReferencesFrom(cs, i + 1)

(* A conversion is <<node, references>>: the converted node, or what was   *)
(* thrown, and the references pushed on the way, in the order of the       *)
(* pushes.                                                                 *)
Thrown(c) == isThrow(c[1])

\* children.map(recurseConvertSubSchema): <<the array of nodes, references>>
collectConversions(conversions) ==
  Let(conversions, LAMBDA cs :
    Let(firstThrow([i \in 1..Len(cs) |-> cs[i][1]], 1), LAMBDA t :
      IF t # Undefined THEN <<t, <<>>>>
      ELSE <<Arr([i \in 1..Len(cs) |-> cs[i][1]]), ReferencesFrom(cs, 1)>>))

\* actualSchema[key] = <the conversion c>, after the conversion st so far
assign(st, key, c) ==
  IF Thrown(c) THEN <<c[1], <<>>>>
  ELSE <<Put(st[1], key, c[1]), st[2] \o c[2]>>

RECURSIVE convertSubSchema(_, _)

\* lines 158-168 and 177-178: schema[key].map(recurseConvertSubSchema)
convertEach(st, schema, swagger, key) ==
  Let(Get(schema, key), LAMBDA list :
    IF ~isArray(list) THEN <<TypeError, <<>>>>
    ELSE Let(elements(list), LAMBDA schemas :
           assign(st, key, collectConversions(
             [i \in 1..Len(schemas) |-> convertSubSchema(schemas[i], swagger)]))))

\* lines 171, 180, 185, 204: recurseConvertSubSchema(schema[key])
convertOne(st, schema, swagger, key) ==
  assign(st, key, convertSubSchema(Get(schema, key), swagger))

\* lines 191-193 and 197-200: every value of schema[key], under its own key
convertValues(st, schema, swagger, key) ==
  Let(Get(schema, key), LAMBDA map :
    IF map[1] = "array" THEN convertEach(st, schema, swagger, key)
    ELSE IF isString(map) THEN <<TypeError, <<>>>>
    ELSE IF ~isPlainObject(map) THEN st
    ELSE Let(collectConversions(
               [i \in 1..Len(map[2]) |-> convertSubSchema(map[2][i][2], swagger)]),
             LAMBDA c :
               IF Thrown(c) THEN c
               ELSE assign(st, key,
                      <<withPairs(map, [i \in 1..Len(map[2]) |->
                                          <<map[2][i][1], c[1][2][i]>>]),
                        c[2]>>)))

\* one `if (schema.<key>) ...` block of lines 158-205
convertKey(st, schema, swagger, key) ==
  IF Thrown(st) THEN st
  ELSE Let(Get(schema, key), LAMBDA child :
    IF ~Truthy(child) THEN st
    ELSE CASE key \in {"allOf", "anyOf", "oneOf"} ->
                convertEach(st, schema, swagger, key)
           [] key = "not" -> convertOne(st, schema, swagger, key)
           [] key = "items" ->
                IF isArray(child) THEN convertEach(st, schema, swagger, key)
                ELSE convertOne(st, schema, swagger, key)
           [] key \in {"additionalItems", "additionalProperties"} ->
                IF typeofObject(child) THEN convertOne(st, schema, swagger, key)
                ELSE st
           [] key \in {"properties", "patternProperties"} ->
                convertValues(st, schema, swagger, key))

\* the keys of lines 158-205, in the order of the code
SchemaKeys == <<"allOf", "anyOf", "oneOf", "not", "items", "additionalItems",
                "properties", "patternProperties", "additionalProperties">>

RECURSIVE convertKeys(_, _, _, _)
convertKeys(st, schema, swagger, i) ==
  IF i > Len(SchemaKeys) THEN st
  ELSE Let(convertKey(st, schema, swagger, SchemaKeys[i]), LAMBDA next :
         convertKeys(next, schema, swagger, i + 1))

convertSubSchema(schema, swagger) ==
  IF isNullish(schema) THEN <<TypeError, <<>>>>
  ELSE IF Truthy(Get(schema, "$ref"))
  THEN <<Obj(<< <<"$ref", Get(schema, "$ref")>> >>), <<Get(schema, "$ref")>> >>
  ELSE Let(cloneDeep(omitBy(omit(schema, SwaggerOnlyKeys))), LAMBDA a0 :
       Let(fileType(a0, schema), LAMBDA a1 :
       Let(exampleToExamples(a1, schema, swagger), LAMBDA a2 :
       Let(nullable(a2, schema), LAMBDA a3 :
         convertKeys(<<a3, <<>> >>, schema, swagger, 1)))))

----------------------------------------------------------------------------
(* checkSchemaHasReferences and findReferences *)

RECURSIVE checkSchemaHasReferences(_)

\* line 219, value.some(checkSchemaHasReferences), over the elements vs from
\* position i on: a Bool, or what a call threw
RECURSIVE someSchema(_, _)
someSchema(vs, i) ==
  IF i > Len(vs) THEN Bool(FALSE)
  ELSE Let(checkSchemaHasReferences(vs[i]), LAMBDA r :
         IF isThrow(r) \/ r = Bool(TRUE) THEN r ELSE someSchema(vs, i + 1))

\* lines 217-225: the callback given to Object.values(schema).some
checkValue(value) ==
  IF isArray(value) THEN someSchema(elements(value), 1)
  ELSE IF isObject(value) THEN checkSchemaHasReferences(value)
  ELSE Bool(FALSE)

\* line 217, Object.values(schema).some(...), over the values vs from
\* position i on: a Bool, or what a call threw
RECURSIVE someValue(_, _)
someValue(vs, i) ==
  IF i > Len(vs) THEN Bool(FALSE)
  ELSE Let(checkValue(vs[i]), LAMBDA r :
         IF isThrow(r) \/ r = Bool(TRUE) THEN r ELSE someValue(vs, i + 1))

checkSchemaHasReferences(schema) ==
  IF isNullish(schema) THEN TypeError
  ELSE IF Truthy(Get(schema, "$ref")) THEN Bool(TRUE)
  ELSE Let(OwnPairs(schema), LAMBDA p : someValue([i \in 1..Len(p) |-> p[i][2]], 1))

RECURSIVE findReferences(_)

\* the references of the results rs, each an array of references, in order;
\* the first exception among them if there is one
concatReferences(results) ==
  Let(results, LAMBDA rs :
    Let(firstThrow(rs, 1), LAMBDA t :
      IF t # Undefined THEN t
      ELSE Arr(ReferencesFrom([i \in 1..Len(rs) |-> <<Null, rs[i][2]>>], 1))))

\* line 251: the array concat builds from the elements of an array handed
\* to it one by one, an element that is an array giving its own elements
RECURSIVE spreadFrom(_, _)
spreadFrom(s, i) ==
  IF i > Len(s) THEN <<>>
  ELSE (IF isArray(s[i]) THEN elements(s[i]) ELSE <<s[i]>>) \o spreadFrom(s, i + 1)

spread(found) == IF isThrow(found) THEN found ELSE Arr(spreadFrom(found[2], 1))

\* one `if (schema.<key>) ...` block of lines 238-284: the references found so
\* far, an array, with those under schema[key] appended
findKey(found, schema, key) ==
  IF isThrow(found) THEN found
  ELSE Let(Get(schema, key), LAMBDA child :
    IF ~Truthy(child) THEN found
    ELSE Let(
      CASE key \in {"allOf", "anyOf", "oneOf"} ->
             IF isArray(child)
             THEN Let(elements(child), LAMBDA schemas :
                    concatReferences([i \in 1..Len(schemas) |-> findReferences(schemas[i])]))
             ELSE TypeError
        [] key = "not" -> spread(findReferences(child))
        [] key = "items" ->
             IF isArray(child)
             THEN Let(elements(child), LAMBDA schemas :
                    concatReferences([i \in 1..Len(schemas) |-> findReferences(schemas[i])]))
             ELSE findReferences(child)
        [] key \in {"additionalItems", "additionalProperties"} ->
             IF typeofObject(child) THEN findReferences(child) ELSE Arr(<<>>)
        [] key \in {"properties", "patternProperties"} ->
             Let(OwnPairs(child), LAMBDA p :
               concatReferences([i \in 1..Len(p) |-> findReferences(p[i][2])])),
      LAMBDA more : IF isThrow(more) THEN more ELSE Arr(found[2] \o more[2])))

RECURSIVE findKeys(_, _, _)
findKeys(found, schema, i) ==
  IF i > Len(SchemaKeys) THEN found
  ELSE Let(findKey(found, schema, SchemaKeys[i]), LAMBDA next :
         findKeys(next, schema, i + 1))

findReferences(schema) ==
  IF isNullish(schema) THEN TypeError
  ELSE IF Truthy(Get(schema, "$ref")) THEN Arr(<<Get(schema, "$ref")>>)
  ELSE findKeys(Arr(<<>>), schema, 1)

----------------------------------------------------------------------------
(* convertSchema and convertSchemaDefinitions, one step at a time *)

\* the property key a value used as a key names
keyOf(id) == IF id = Undefined THEN "undefined" ELSE id[2]

\* line 305: String.prototype.split exists on strings only
lookupDefinition(reference, root) ==
  IF isString(reference) THEN lookupReference(reference[2], root, Num(3))
  ELSE TypeError

\* line 315
lookupRoot(reference, root) ==
  IF isString(reference) THEN lookupReference(reference[2], root, Undefined)
  ELSE TypeError

\* a loop that copies a definition each time it meets it
notCopied_always(definitions, id) == TRUE

\* line 307: the definition is still to be copied
notCopied(definitions, id) == Get(definitions, keyOf(id)) = Undefined

\* lines 324-327
allOfWrapper(converted) ==
  Obj(<< <<"allOf", Arr(<< Obj(<< <<"$ref", Get(converted, "$ref")>> >>) >>)>>,
         <<"definitions", Get(converted, "definitions")>> >>)

\* convertSchema returns or throws v: to the caller, or to the callback of
\* convertSchemaDefinitions (line 338), where a thrown v ends the batch
finish(v) ==
  IF op = "convertSchema" \/ isThrow(v)
  THEN pc' = "done" /\ ret' = v /\ UNCHANGED <<out, todo>>
  ELSE /\ pc' = "batch"
       /\ out' = Put(out, keyString(forEachKey(Get(rootArg, "definitions"), todo)), v)
       /\ todo' = increment(todo)
       /\ ret' = ret

\* lines 296-302
convertStart ==
  /\ pc = "convert"
  /\ \E c \in {convertSubSchema(schemaArg, swaggerArg)} :
       IF Thrown(c)
       THEN finish(c[1]) /\ UNCHANGED <<result, references>>
       ELSE /\ result' = IF copyDefinitions /\ c[2] # <<>>
                         THEN Put(c[1], "definitions", Obj(<<>>))
                         ELSE c[1]
            /\ references' = c[2]
            /\ pc' = "loop"
            /\ UNCHANGED <<ret, out, todo>>
  /\ UNCHANGED <<op, schemaArg, rootArg, swaggerArg, copyDefinitions, dvars, lvars>>

\* lines 304-311: one iteration of the while loop
copyDefinition ==
  /\ pc = "loop"
  /\ copyDefinitions
  /\ references # <<>>
  /\ \E lookup \in {lookupDefinition(Last(references), rootArg)} :
       IF isThrow(lookup)
       THEN finish(lookup) /\ UNCHANGED <<result, references>>
       ELSE IF notCopied(Get(result, "definitions"), Get(lookup, "id"))
       THEN \E found \in {findReferences(Get(lookup, "referenced"))} :
              IF isThrow(found)
              THEN finish(found) /\ UNCHANGED <<result, references>>
              ELSE /\ references' = Front(references) \o found[2]
                   /\ result' = Put(result, "definitions",
                                    Put(Get(result, "definitions"),
                                        keyOf(Get(lookup, "id")),
                                        Get(lookup, "referenced")))
                   /\ UNCHANGED <<pc, ret, out, todo>>
       ELSE /\ references' = Front(references)
            /\ UNCHANGED <<result, pc, ret, out, todo>>
  /\ UNCHANGED <<op, schemaArg, rootArg, swaggerArg, copyDefinitions, dvars, lvars>>

\* lines 314-330
rootReference ==
  /\ pc = "loop"
  /\ ~copyDefinitions \/ references = <<>>
  /\ IF Truthy(Get(result, "$ref")) /\ copyDefinitions
     THEN \E reference \in {lookupRoot(Get(result, "$ref"), rootArg)} :
            IF isThrow(reference) THEN finish(reference)
            ELSE \E definition \in {Get(Get(result, "definitions"),
                                        keyOf(Get(reference, "id")))} :
                 \E has \in {checkSchemaHasReferences(definition)} :
                   IF isThrow(has) THEN finish(has)
                   ELSE IF has = Bool(FALSE) THEN finish(definition)
                   ELSE finish(allOfWrapper(result))
     ELSE finish(result)
  /\ UNCHANGED <<result, references>>
  /\ UNCHANGED <<op, schemaArg, rootArg, swaggerArg, copyDefinitions, dvars, lvars>>

\* lines 336-337: the number of callbacks of the batch
batchLength(definitions) ==
  IF Truthy(definitions) THEN forEachLength(definitions) ELSE Num(0)

\* lines 336-342: the next definition of the batch, or the end of the batch;
\* todo is the number of the next callback of _.forEach, counted from 0
nextDefinition ==
  /\ pc = "batch"
  /\ LET definitions == Get(rootArg, "definitions")
     IN IF ~indexLess(todo, batchLength(definitions))
        THEN /\ pc' = "done" /\ ret' = out
             /\ UNCHANGED <<schemaArg, result, references>>
        ELSE /\ pc' = "convert"
             /\ schemaArg' = Get(definitions,
                                 keyString(forEachKey(definitions, todo)))
             /\ result' = Undefined /\ references' = <<>>
             /\ ret' = ret
  /\ UNCHANGED <<op, rootArg, swaggerArg, copyDefinitions, out, todo, dvars, lvars>>

----------------------------------------------------------------------------
(* The calls explored *)

Ref(id) == Obj(<< <<"$ref", Str("#/definitions/" \o id)>> >>)
RefTo(reference) == Obj(<< <<"$ref", Str(reference)>> >>)
Doc(defs) == Obj(<< <<"definitions", Obj(defs)>> >>)

IdleConvert ==
  /\ op = "none" /\ schemaArg = Undefined /\ rootArg = Undefined
  /\ swaggerArg = Undefined
  /\ copyDefinitions = FALSE /\ pc = "idle" /\ result = Undefined
  /\ references = <<>> /\ ret = Running /\ todo = Num(0)
  /\ out = Undefined

IdleDereference ==
  dexample = Undefined /\ droot = Undefined /\ stack = <<>> /\ dret = Running

IdleLookup ==
  lreference = "" /\ lroot = Undefined /\ ldepth = Undefined /\ lret = Running

\* documents whose definitions reference themselves and each other
DerefRoots == {
  Doc(<< <<"A", Ref("A")>> >>),
  Doc(<< <<"A", Ref("B")>>, <<"B", Ref("A")>> >>),
  Doc(<< <<"A", Obj(<< <<"x", Ref("A")>>, <<"n", Num(1)>> >>)>>,
         <<"B", Obj(<< <<"list", Arr(<<Ref("B"), Num(1)>>)>> >>)>> >>),
  Doc(<< <<"A", Obj(<< <<"x", Obj(<< <<"y", Str("s")>>,
                                     <<"z", RefTo("#/definitions/A/x")>> >>)>> >>)>>,
         <<"B", Obj(<< <<"y", RefTo("#/definitions/A/x/y")>> >>)>> >>),
  Doc(<< <<"User", Obj(<< <<"name", Str("u")>> >>)>>,
         <<"UserList", Obj(<< <<"items", Arr(<<Ref("User")>>)>> >>)>> >>),
  Doc(<< <<"A", Obj(<< <<"b", Ref("B")>>, <<"c", Ref("C")>> >>)>>,
         <<"B", Obj(<< <<"d", Ref("D")>> >>)>>,
         <<"C", Obj(<< <<"d", Ref("D")>> >>)>>,
         <<"D", Obj(<< <<"v", Num(1)>> >>)>> >>),
  Doc(<< <<"A", Obj(<< <<"x", Ref("Z")>> >>)>>,
         <<"B", Arr(<<Ref("A"), Ref("B")>>)>> >>),
  Doc(<< <<"A", Ref("A1")>>, <<"A1", Ref("A2")>>, <<"A2", Ref("A3")>>,
         <<"A3", Ref("A4")>>, <<"A4", Ref("A5")>>, <<"A5", Ref("A6")>>,
         <<"A6", Ref("A7")>>, <<"A7", Obj(<< <<"v", Num(1)>> >>)>>,
         <<"B", Arr(<<Ref("A6"), Ref("A")>>)>> >>),
  Doc(<< <<"A", Obj(<< <<"v", Num(1)>> >>)>>,
         <<"B", Obj(<< <<"1", Ref("A")>>, <<"length", Num(2)>>,
                       <<"width", Num(3)>> >>)>>,
         <<"User", Obj(<< <<"9", Str("y")>>, <<"10", Str("x")>>,
                          <<"__proto__", Obj(<< <<"b", Num(2)>> >>)>>,
                          <<"a", Num(1)>> >>)>> >>) }

DerefExamples == {
  Ref("A"), Ref("B"), Ref("User"), Ref("UserList"),
  RefTo("#/definitions/A/x"),
  Arr(<<Ref("A"), Str("s"), Ref("B")>>),
  Obj(<< <<"e", Ref("A")>>, <<"f", Arr(<<Ref("UserList")>>)>> >>),
  Obj(<< <<"$ref", Num(1)>>, <<"k", Bool(FALSE)>> >>),
  Obj(<< <<"size", Obj(<< <<"length", Num(1)>>, <<"unit", Str("m")>> >>)>>,
         <<"none", Obj(<< <<"length", Num(0)>> >>)>> >>),
  RefTo("#/definitions/toString"), RefTo("#/definitions/B/width/constructor"),
  RefTo("#/definitions/constructor/keys"),
  Obj(<< <<"a", RefTo("#/definitions/A/v/toString/length")>>,
         <<"b", RefTo("#/definitions/A/v/constructor/EPSILON")>> >>),
  RefTo("#/definitions"),
  Obj(<< <<"0", Str("a")>>, <<"length", Num(12)>> >>),
  Num(0), Str("x"), Null, Undefined }

InitDereference ==
  /\ IdleConvert /\ IdleLookup
  /\ dexample \in DerefExamples
  /\ droot \in DerefRoots \cup {Undefined}
  /\ stack = <<Frame(dexample, Undefined, Undefined)>>
  /\ dret = Running

NextDereference ==
  \/ derefScalar
  \/ derefCircular
  \/ derefFollow
  \/ derefDescend
  \/ derefCollect

SpecDereference == InitDereference /\ [][NextDereference]_vars

\* every call that can take a step eventually takes it
FairDereference == SpecDereference /\ WF_vars(NextDereference)

LookupRoots == {
  Doc(<< <<"User", Obj(<< <<"type", Str("object")>>,
                          <<"properties", Obj(<< <<"name",
                              Obj(<< <<"type", Str("string")>> >>)>> >>)>>,
                          <<"title", Str("ab")>>, <<"n", Num(1)>> >>)>>,
         <<"Pet", Obj(<< <<"tags", Arr(<<Str("t0"), Str("t1")>>)>>,
                         <<"nothing", Null>> >>)>> >>),
  Doc(<< <<"Pet", Obj(<< <<"properties", Obj(<<>>)>> >>)>> >>),
  Doc(<<>>),
  Obj(<<>>), Null, Undefined }

LookupReferences == {
  "#/definitions/User", "#/definitions/User/properties/name",
  "#/definitions/User/properties/name/type", "#/definitions/User/properties/age",
  "#/definitions/User/properties/age/type", "#/definitions/User/title/1",
  "#/definitions/Pet", "#/definitions/Pet/tags/1", "#/definitions/Pet/tags/length",
  "#/definitions/Pet/tags/2", "#/definitions/Pet/nothing",
  "#/definitions/Pet/nothing/x", "#/definitions/Missing",
  "#/definitions/Missing/properties/name", "#/definitions/",
  "#/definitions", "#", "definitions/User", "/definitions/User", "",
  "#/parameters/User", "#/Definitions/User", "User",
  "#/definitions/Pet/tags/map", "#/definitions/Pet/tags/map/name",
  "#/definitions/User/title/trimLeft", "#/definitions/toString",
  "#/definitions/constructor/prototype", "#/definitions/__proto__",
  "#/definitions/valueOf/caller", "#/definitions/constructor/keys",
  "#/definitions/constructor/keys/length", "#/definitions/User/n/toString/length",
  "#/definitions/User/n/constructor/parseInt/length",
  "#/definitions/User/n/constructor/NaN/toFixed",
  "#/definitions/constructor/prototype/__proto__",
  "#/definitions/toString/constructor/prototype/caller" }

LookupDepths == {Undefined, Num(0), Num(3), Num(4)}

InitLookup ==
  /\ IdleConvert /\ IdleDereference
  /\ lreference \in LookupReferences
  /\ lroot \in LookupRoots
  /\ ldepth \in LookupDepths
  /\ lret = Running

lookupCall ==
  /\ lret = Running
  /\ lret' = lookupReference(lreference, lroot, ldepth)
  /\ UNCHANGED <<lreference, lroot, ldepth, cvars, dvars>>

NextLookup == lookupCall

SpecLookup == InitLookup /\ [][NextLookup]_vars

\* JSON Schema documents: shared, cyclic, array-holding and broken definitions
ConvertRoots == {
  Doc(<< <<"A", Obj(<< <<"type", Str("object")>>,
                       <<"properties", Obj(<< <<"b", Ref("B")>>, <<"c", Ref("C")>> >>)>> >>)>>,
         <<"B", Obj(<< <<"type", Str("array")>>, <<"items", Ref("C")>> >>)>>,
         <<"C", Obj(<< <<"type", Str("string")>> >>)>>,
         <<"constructor", Obj(<< <<"type", Str("object")>>,
                                 <<"properties", Obj(<< <<"c", Ref("C")>> >>)>> >>)>>,
         <<"E", Obj(<< <<"enum", Arr(<<Str("a"), Null>>)>> >>)>>,
         <<"F", Obj(<< <<"type", Str("string")>>,
                       <<"enum", Arr(<<Str("a"), Str("b")>>)>>,
                       <<"required", Arr(<<Str("x")>>)>>,
                       <<"default", Num(0)>> >>)>>,
         <<"X", Obj(<< <<"not", Obj(<< <<"$ref",
                         Arr(<<Str("#/definitions/C"), Str("#/definitions/F")>>)>> >>)>> >>)>> >>),
  Doc(<< <<"Node", Obj(<< <<"properties",
                            Obj(<< <<"next", Ref("Node")>>,
                                   <<"val", Obj(<< <<"type", Str("integer")>> >>)>> >>)>> >>)>>,
         <<"A", Obj(<< <<"allOf", Arr(<<Ref("B"), Obj(<< <<"not", Ref("C")>> >>)>>)>> >>)>>,
         <<"B", Obj(<< <<"anyOf", Arr(<<Ref("A")>>)>>,
                       <<"additionalProperties", Ref("C")>> >>)>>,
         <<"C", Obj(<< <<"oneOf", Arr(<<Ref("C"), Obj(<< <<"type", Str("null")>> >>)>>)>>,
                       <<"items", Arr(<<Ref("Node")>>)>>,
                       <<"additionalItems", Bool(FALSE)>> >>)>> >>),
  Doc(<< <<"A", Obj(<< <<"patternProperties", Obj(<< <<"^x-", Ref("Missing")>> >>)>> >>)>>,
         <<"B", Obj(<< <<"additionalItems", RefTo("#/parameters/C")>> >>)>>,
         <<"C", Obj(<< <<"type", Str("string")>> >>)>> >>) }

\* Swagger documents, which examples are dereferenced against
SwaggerDocs == {
  Doc(<< <<"A", Obj(<< <<"id", Num(1)>>, <<"friend", Ref("A")>> >>)>>,
         <<"C", Str("c")>> >>) }

NullableSchemas == {
  Obj(<< <<"type", Str("string")>>, <<"x-nullable", Bool(TRUE)>> >>),
  Obj(<< <<"enum", Arr(<<Str("a"), Str("b")>>)>>, <<"x-nullable", Bool(TRUE)>> >>),
  Obj(<< <<"type", Str("string")>>, <<"enum", Arr(<<Str("a")>>)>>,
         <<"x-nullable", Bool(TRUE)>> >>),
  Obj(<< <<"type", Str("string")>>, <<"enum", Arr(<<Null, Str("a")>>)>>,
         <<"x-nullable", Bool(TRUE)>> >>),
  Obj(<< <<"enum", Arr(<<Str("a"), Null>>)>>, <<"x-nullable", Bool(TRUE)>> >>),
  Obj(<< <<"x-nullable", Bool(TRUE)>>, <<"description", Str("d")>> >>),
  Obj(<< <<"type", Str("file")>>, <<"x-nullable", Bool(TRUE)>> >>),
  Obj(<< <<"type", Str("string")>>, <<"enum", Arr(<<Str("a")>>)>>,
         <<"x-nullable", Bool(FALSE)>> >>),
  Obj(<< <<"type", Str("file")>> >>) }

ExampleSchemas == {
  Obj(<< <<"type", Str("integer")>>, <<"example", Num(0)>> >>),
  Obj(<< <<"type", Str("integer")>>, <<"example", Num(7)>> >>),
  Obj(<< <<"type", Str("number")>>, <<"example", Double("-0")>> >>),
  Obj(<< <<"type", Str("number")>>, <<"example", Double("NaN")>> >>),
  Obj(<< <<"type", Str("number")>>, <<"example", Double("1.5")>> >>),
  Obj(<< <<"type", Str("string")>>, <<"example", Str("")>> >>),
  Obj(<< <<"type", Str("string")>>, <<"example", Str("x")>> >>),
  Obj(<< <<"type", Str("boolean")>>, <<"example", Bool(FALSE)>> >>),
  Obj(<< <<"type", Str("boolean")>>, <<"example", Bool(TRUE)>> >>),
  Obj(<< <<"example", Obj(<< <<"a", Num(1)>>, <<"c", Ref("C")>> >>)>>,
         <<"type", Str("object")>> >>),
  Obj(<< <<"type", Str("array")>>, <<"example", Arr(<<Num(0), Ref("A")>>)>> >>),
  Obj(<< <<"type", Str("object")>>, <<"example", Ref("Missing")>> >>),
  Obj(<< <<"type", Str("integer")>> >>) }

ReferenceSchemas == {
  Ref("A"), Ref("B"), Ref("C"), Ref("E"), Ref("F"), Ref("Node"),
  Ref("Missing"), RefTo("definitions/A"), RefTo("#/parameters/A"),
  RefTo("#/definitions/A/properties/b"), RefTo("#/definitions/A/properties/z"),
  Obj(<< <<"type", Str("object")>>,
         <<"properties", Obj(<< <<"a", Ref("A")>>,
                                <<"n", Obj(<< <<"type", Str("string")>>,
                                              <<"x-nullable", Bool(TRUE)>> >>)>> >>)>>,
         <<"x-tag", Num(1)>>, <<"readOnly", Bool(TRUE)>> >>),
  Obj(<< <<"type", Str("array")>>, <<"items", Ref("B")>>,
         <<"additionalItems", Bool(TRUE)>> >>),
  Obj(<< <<"allOf", Arr(<<Ref("C"), Ref("Missing")>>)>> >>),
  Obj(<< <<"not", RefTo("#/parameters/A")>>, <<"anyOf", Arr(<<Ref("C")>>)>> >>),
  Obj(<< <<"additionalProperties",
           RefTo("#/definitions/Node/properties/val")>> >>),
  Obj(<< <<"oneOf", Arr(<<Obj(<< <<"items", Arr(<<RefTo("C")>>)>> >>)>>)>> >>),
  Obj(<< <<"allOf", Arr(<<Ref("constructor")>>)>> >>),
  Obj(<< <<"items", Ref("toString")>> >>),
  Ref("constructor"), Ref("X"),
  RefTo("#/definitions/constructor/keys"),
  Obj(<< <<"items", RefTo("#/definitions")>> >>),
  Obj(<< <<"items", RefTo("#/definitions/A/properties/z")>> >>) }

SwaggerKeySchemas == {
  Obj(<< <<"allOf", Arr(<<Obj(<< <<"discriminator", Str("kind")>>,
                                 <<"xml", Obj(<< <<"name", Str("n")>> >>)>>,
                                 <<"properties",
                                   Obj(<< <<"x-p", Obj(<< <<"type", Str("string")>>,
                                                         <<"x-ext", Num(1)>> >>)>>,
                                          <<"example", Obj(<< <<"readOnly", Bool(TRUE)>> >>)>> >>)>> >>)>>)>>,
         <<"not", Obj(<< <<"readOnly", Bool(TRUE)>>, <<"type", Str("null")>> >>)>>,
         <<"items", Arr(<<Obj(<< <<"x-a", Num(1)>> >>)>>)>>,
         <<"additionalItems", Obj(<< <<"example", Num(1)>> >>)>> >>),
  Obj(<< <<"externalDocs", Obj(<< <<"url", Str("u")>> >>)>>,
         <<"patternProperties", Obj(<< <<"^x-", Obj(<< <<"xml", Obj(<<>>)>> >>)>> >>)>>,
         <<"additionalProperties", Obj(<< <<"x-b", Num(2)>>,
                                          <<"items", Obj(<< <<"x-c", Null>> >>)>> >>)>>,
         <<"anyOf", Arr(<<Obj(<< <<"oneOf", Arr(<<Obj(<< <<"x-d", Str("")>> >>)>>)>> >>)>>)>> >>),
  Obj(<< <<"readOnly", Bool(TRUE)>>,
         <<"properties", Obj(<< <<"x-id", Obj(<< <<"type", Str("string")>>,
                                                <<"xml", Obj(<<>>)>> >>)>>,
                                <<"example", Obj(<< <<"type", Str("string")>> >>)>>,
                                <<"readOnly", Obj(<< <<"x-z", Num(1)>> >>)>> >>)>>,
         <<"patternProperties", Obj(<< <<"x-", Obj(<< <<"discriminator", Str("d")>> >>)>> >>)>> >>) }

ConvertSchemas ==
  NullableSchemas \cup ExampleSchemas \cup ReferenceSchemas \cup SwaggerKeySchemas

\* the argument of convertSchemaDefinitions: Swagger definitions, or nothing
BatchDefinitions == {
  Obj(<< <<"User", Obj(<< <<"type", Str("object")>>,
                          <<"properties",
                            Obj(<< <<"pet", Ref("Pet")>>,
                                   <<"name", Obj(<< <<"type", Str("string")>>,
                                                   <<"x-nullable", Bool(TRUE)>> >>)>> >>)>>,
                          <<"example", Obj(<< <<"pet", Ref("Pet")>> >>)>> >>)>>,
         <<"Pet", Obj(<< <<"enum", Arr(<<Str("cat"), Str("dog")>>)>>,
                         <<"x-nullable", Bool(TRUE)>> >>)>> >>),
  Obj(<< <<"A", Ref("Missing")>>,
         <<"B", Obj(<< <<"items", RefTo("#/parameters/B")>> >>)>>,
         <<"C", Obj(<< <<"allOf", Arr(<<RefTo("C")>>)>> >>)>> >>),
  Obj(<< <<"A", Obj(<< <<"type", Str("string")>>, <<"example", Ref("Missing")>> >>)>>,
         <<"B", Obj(<< <<"type", Str("string")>> >>)>> >>),
  Arr(<<Obj(<< <<"type", Str("file")>> >>), Ref("1")>>),
  Str("ab"),
  Obj(<< <<"0", Obj(<< <<"type", Str("string")>> >>)>>, <<"length", Num(1)>> >>),
  Obj(<< <<"length", Double("2147483648")>> >>),
  Obj(<< <<"0", Obj(<< <<"type", Str("string")>> >>)>>,
         <<"length", Double("9007199254740991")>> >>),
  Obj(<< <<"length", Double("9007199254740992")>> >>),
  Obj(<< <<"A", Null>> >>),
  Obj(<<>>), Null, Undefined }

InitConvertSchema ==
  /\ op = "convertSchema"
  /\ schemaArg \in ConvertSchemas
  /\ rootArg \in ConvertRoots
  /\ swaggerArg \in SwaggerDocs
  /\ copyDefinitions \in BOOLEAN
  /\ pc = "convert"
  /\ todo = Num(0) /\ out = Undefined

\* lines 333-338: every call gets {definitions} as both roots and false
InitConvertSchemaDefinitions ==
  /\ op = "convertSchemaDefinitions"
  /\ \E definitions \in BatchDefinitions :
       /\ rootArg = Obj(<< <<"definitions", definitions>> >>)
       /\ swaggerArg = Obj(<< <<"definitions", definitions>> >>)
  /\ todo = Num(0)
  /\ schemaArg = Undefined
  /\ copyDefinitions = FALSE
  /\ pc = "batch"
  /\ out = Obj(<<>>)

Init ==
  /\ IdleDereference /\ IdleLookup
  /\ InitConvertSchema \/ InitConvertSchemaDefinitions
  /\ result = Undefined /\ references = <<>> /\ ret = Running

Next ==
  \/ convertStart
  \/ copyDefinition
  \/ rootReference
  \/ nextDefinition

Spec == Init /\ [][Next]_vars

\* a call that can take a step eventually takes it
FairSpec == Spec /\ WF_vars(Next)

----------------------------------------------------------------------------
(* Properties of lookupReference *)

C9_Segments == split(lreference, "/")

\* the reference has the form #/definitions/<id>[/<segments>]
C9_HasForm ==
  /\ Len(C9_Segments) >= 3
  /\ C9_Segments[1] = "#"
  /\ C9_Segments[2] = "definitions"

\* the node reached from value by reading each segment as a property, as
\* value[segment] does; undefined once a property is undefined, the exception
\* when a read throws, as a read from null does
RECURSIVE C9_Follow(_, _)
C9_Follow(value, segments) ==
  IF segments = <<>> \/ value = Undefined \/ isThrow(value) THEN value
  ELSE IF value = Null THEN TypeError
  ELSE C9_Follow(Get(value, Head(segments)), Tail(segments))

\* C9: for a reference #/definitions/<id>[/<segments>] and a root that is an
\* object, lookupReference returns
\* the third segment as id; without a depth it returns the node reached by
\* following every remaining segment from root.definitions and fails with the
\* not-found error exactly when a key along that walk is undefined; with depth 3
\* it returns root.definitions[<id>] whatever follows, and fails with not-found
\* exactly when root.definitions[<id>] is undefined.
C9_LookupReference ==
  (lret # Running /\ C9_HasForm /\ ~isNullish(lroot)) =>
    LET defs == Get(lroot, "definitions")
        id == C9_Segments[3]
        walked == C9_Follow(defs, SubSeq(C9_Segments, 3, Len(C9_Segments)))
        owner == C9_Follow(defs, <<id>>)
    IN /\ ~isThrow(lret) => Get(lret, "id") = Str(id)
       /\ ~Truthy(ldepth) =>
            /\ (lret = ErrNotFound(lreference)) <=> (walked = Undefined)
            /\ ~isThrow(lret) => Get(lret, "referenced") = walked
            /\ ~isThrow(walked) /\ walked # Undefined => ~isThrow(lret)
       /\ ldepth = Num(3) =>
            /\ (lret = ErrNotFound(lreference)) <=> (owner = Undefined)
            /\ owner # Undefined =>
                 ~isThrow(lret) /\ Get(lret, "referenced") = owner

\* a depth-3 lookup of a nested path has returned the owning definition, which
\* is not the nested node
C9_DepthLimited ==
  /\ lreference = "#/definitions/User/properties/name"
  /\ ldepth = Num(3)
  /\ lret # Running /\ ~isThrow(lret)
  /\ Get(lret, "id") = Str("User")
  /\ Get(Get(lret, "referenced"), "type") = Str("object")

----------------------------------------------------------------------------
(* Properties of dereference *)

C3_SelfReference == Doc(<< <<"A", Ref("A")>> >>)

\* C3: dereference(value, root), called without visitedPaths and path,
\* terminates however the definitions reference themselves or each other; the
\* index of every active call stays within the number of children the call
\* has, which _.forEach takes from `length` for an array-like object; and
\* dereference({$ref: '#/definitions/A'}, {definitions: {A: {$ref:
\* '#/definitions/A'}}}) returns null.
C3_Terminates ==
  /\ <>(dret # Running)
  /\ [](\A i \in 1..Len(stack) :
          ~indexLess(forEachLength(stack[i].example), stack[i].next))
  /\ [](dret # Running /\ dexample = Ref("A") /\ droot = C3_SelfReference
          => dret = Null)

\* a call on mutually referencing definitions has returned a value
C3_CycleReturned ==
  /\ dret # Running /\ ~isThrow(dret)
  /\ dexample = Arr(<<Ref("A"), Str("s"), Ref("B")>>)
  /\ droot = Doc(<< <<"A", Ref("B")>>, <<"B", Ref("A")>> >>)

\* the reference strings of the {$ref: string} nodes of a value
RECURSIVE C10_RefsIn(_)
C10_RefsIn(v) ==
  IF ~isObject(v) THEN {}
  ELSE IF isReference(v) THEN {Get(v, "$ref")[2]}
  ELSE UNION {C10_RefsIn(IF isArray(v) THEN v[2][i] ELSE v[2][i][2]) :
                i \in 1..Len(v[2])}

\* the value is made of scalars, arrays and objects none of which has a key
\* `length` or `__proto__`
RECURSIVE C10_Plain(_)
C10_Plain(v) ==
  IF v[1] = "array" THEN \A i \in 1..Len(v[2]) : C10_Plain(v[2][i])
  ELSE IF v[1] = "object"
  THEN \A i \in 1..Len(v[2]) :
         v[2][i][1] \notin {"length", "__proto__"} /\ C10_Plain(v[2][i][2])
  ELSE TRUE

\* the segments name own properties of objects and elements of arrays, one
\* below the other
RECURSIVE C10_OwnWalk(_, _)
C10_OwnWalk(value, segments) ==
  \/ segments = <<>>
  \/ /\ value[1] \in {"object", "array"}
     /\ Head(segments) # "length"
     /\ hasOwnProperty(value, Head(segments))
     /\ C10_OwnWalk(ownProperty(value, Head(segments)), Tail(segments))

\* the root is {definitions: {...}}, the value and the definitions are plain,
\* and every reference names a node of the definitions
C10_Ordinary ==
  /\ isPlainObject(droot) /\ HasOwn(droot, "definitions")
  /\ isPlainObject(OwnValue(droot, "definitions"))
  /\ C10_Plain(dexample) /\ C10_Plain(droot)
  /\ \A r \in C10_RefsIn(dexample) \cup C10_RefsIn(droot) :
       /\ Len(split(r, "/")) >= 3
       /\ SubSeq(split(r, "/"), 1, 2) = <<"#", "definitions">>
       /\ C10_OwnWalk(OwnValue(droot, "definitions"),
                      SubSeq(split(r, "/"), 3, Len(split(r, "/"))))

C10_Ids == {droot[2][1][2][2][i][1] : i \in 1..Len(droot[2][1][2][2])}
C10_IdOf(reference) == split(reference, "/")[3]
C10_Direct(id) == {C10_IdOf(r) : r \in C10_RefsIn(Get(Get(droot, "definitions"), id))}

\* the ids reachable from the ids S in at most n steps
RECURSIVE C10_Reach(_, _)
C10_Reach(S, n) ==
  IF n = 0 THEN S
  ELSE C10_Reach(S \cup UNION {C10_Direct(id) : id \in S \cap C10_Ids}, n - 1)

\* every reference resolves and no definition reachable from the value
\* reaches itself
C10_Acyclic ==
  LET from == {C10_IdOf(r) : r \in C10_RefsIn(dexample)}
      reached == C10_Reach(from, Cardinality(C10_Ids))
  IN /\ reached \subseteq C10_Ids
     /\ \A id \in reached :
          id \notin C10_Reach(C10_Direct(id), Cardinality(C10_Ids))

\* the value with every reference node replaced by its expanded target
RECURSIVE C10_Expand(_)
C10_Expand(v) ==
  IF ~isObject(v) THEN v
  ELSE IF isReference(v)
  THEN C10_Expand(C9_Follow(Get(droot, "definitions"),
                  SubSeq(split(Get(v, "$ref")[2], "/"), 3,
                         Len(split(Get(v, "$ref")[2], "/")))))
  ELSE IF isArray(v) THEN Arr([i \in 1..Len(v[2]) |-> C10_Expand(v[2][i])])
  ELSE Obj([i \in 1..Len(v[2]) |-> <<v[2][i][1], C10_Expand(v[2][i][2])>>])

\* C10: for a plain value and plain definitions, when the definitions
\* reachable from the value are acyclic, every {$ref: string} node is replaced
\* by its fully dereferenced target and no null is introduced, also when one
\* definition id is a prefix of another.
C10_NullOnlyOnCycle ==
  (dret # Running /\ ~isThrow(dret) /\ C10_Ordinary /\ C10_Acyclic) =>
    dret = C10_Expand(dexample)


----------------------------------------------------------------------------
(* Properties of convertSchema and convertSchemaDefinitions *)

\* the elements of an array, the property values of an object
CC_Values(v) ==
  IF isArray(v) THEN {v[2][i] : i \in 1..Len(v[2])}
  ELSE IF isPlainObject(v) THEN {v[2][i][2] : i \in 1..Len(v[2])}
  ELSE {}

CC_Keys(v) == IF isPlainObject(v) THEN {v[2][i][1] : i \in 1..Len(v[2])} ELSE {}

\* the schema nodes directly below a node: the members of allOf, anyOf and
\* oneOf, the values of properties and patternProperties, the schema or
\* schemas of items, and the schemas of not, additionalItems and
\* additionalProperties.  A node that is a reference has none.
CC_SubSchemas(node) ==
  IF ~isPlainObject(node) \/ Truthy(Get(node, "$ref")) THEN {}
  ELSE LET lists == UNION {CC_Values(Get(node, k)) :
                             k \in {"allOf", "anyOf", "oneOf", "properties",
                                    "patternProperties"}}
           items == IF isArray(Get(node, "items")) THEN CC_Values(Get(node, "items"))
                    ELSE {Get(node, "items")}
           single == {Get(node, k) : k \in {"not", "additionalItems",
                                            "additionalProperties"}}
       IN {n \in lists \cup items \cup single : isPlainObject(n)}

\* a node and every schema node below it, at any depth
RECURSIVE CC_Nodes(_)
CC_Nodes(node) ==
  IF ~isPlainObject(node) THEN {}
  ELSE {node} \cup UNION {CC_Nodes(n) : n \in CC_SubSchemas(node)}

\* the references of a schema: the $ref strings of its nodes
CC_Refs(node) ==
  {Get(n, "$ref")[2] : n \in {m \in CC_Nodes(node) : isString(Get(m, "$ref"))
                                                    /\ Truthy(Get(m, "$ref"))}}

CC_Definitions == Get(rootArg, "definitions")

\* the own property k of an object, undefined when it has none
CC_Own(o, k) == IF isPlainObject(o) /\ HasOwn(o, k) THEN OwnValue(o, k) ELSE Undefined

\* the reference does not start with '#', or its second segment is not
\* 'definitions', or root.definitions[<id>] is undefined for the id it names;
\* the read finds inherited properties too.  '#/definitions' names no id and
\* is looked up as root.definitions itself.
CC_Invalid(reference) ==
  LET parts == split(reference, "/")
  IN \/ parts[1] # "#"
     \/ Len(parts) < 2
     \/ parts[2] # "definitions"
     \/ IF Len(parts) = 2 THEN CC_Definitions = Undefined
        ELSE Get(CC_Definitions, parts[3]) = Undefined

\* the error lookupReference has for an invalid reference
CC_ErrorOf(reference) ==
  LET parts == split(reference, "/")
  IN IF parts[1] # "#" THEN ErrRoot
     ELSE IF Len(parts) < 2 \/ parts[2] # "definitions" THEN ErrTarget
     ELSE ErrNotFound(reference)

\* the key a valid reference is stored under: its definition id, and
\* 'undefined' for '#/definitions', as result.definitions[undefined] is
CC_IdOf(reference) ==
  LET parts == split(reference, "/")
  IN IF Len(parts) = 2 THEN "undefined" ELSE parts[3]

\* what a valid reference with this key names in the root: the definition,
\* and root.definitions itself for the key of '#/definitions'
CC_Named(id) ==
  IF id = "undefined" /\ Get(CC_Definitions, id) = Undefined THEN CC_Definitions
  ELSE Get(CC_Definitions, id)

\* the ids reached from a set of references by following valid references
RECURSIVE CC_Reach(_, _)
CC_Reach(ids, n) ==
  IF n = 0 THEN ids
  ELSE LET more == {CC_IdOf(r) :
                      r \in {s \in UNION {CC_Refs(CC_Named(id)) : id \in ids} :
                               ~CC_Invalid(s)}}
       IN IF more \subseteq ids THEN ids ELSE CC_Reach(ids \cup more, n - 1)

CC_Reachable ==
  CC_Reach({CC_IdOf(r) : r \in {s \in CC_Refs(schemaArg) : ~CC_Invalid(s)}},
           Len(CC_Definitions[2]) + 1)

\* every $ref of the schema is a string
CC_StringRefs(schema) ==
  \A n \in CC_Nodes(schema) : Truthy(Get(n, "$ref")) => isString(Get(n, "$ref"))

\* a schema, or a boolean where the keyword may be one
CC_SchemaOr(v, others) == isPlainObject(v) \/ v[1] \in others

\* the keywords of every node of the schema hold what JSON Schema puts
\* there: lists of schemas under allOf, anyOf and oneOf, a schema or a list
\* of schemas under items, maps of schemas under properties and
\* patternProperties, a schema under not, a schema or a boolean under
\* additionalItems and additionalProperties, a list under enum
CC_Typed(schema) ==
  /\ isPlainObject(schema)
  /\ \A n \in CC_Nodes(schema) :
       Truthy(Get(n, "$ref")) \/
         /\ \A k \in {"allOf", "anyOf", "oneOf"} :
              Get(n, k) = Undefined \/
                (Get(n, k)[1] = "array" /\
                 \A v \in CC_Values(Get(n, k)) : isPlainObject(v))
         /\ \A k \in {"properties", "patternProperties"} :
              Get(n, k) = Undefined \/
                (isPlainObject(Get(n, k)) /\
                 \A v \in CC_Values(Get(n, k)) : isPlainObject(v))
         /\ \/ CC_SchemaOr(Get(n, "items"), {"undefined"})
            \/ /\ Get(n, "items")[1] = "array"
               /\ \A v \in CC_Values(Get(n, "items")) : isPlainObject(v)
         /\ CC_SchemaOr(Get(n, "not"), {"undefined"})
         /\ \A k \in {"additionalItems", "additionalProperties"} :
              CC_SchemaOr(Get(n, k), {"undefined", "boolean"})
         /\ Get(n, "enum")[1] \in {"undefined", "array"}

\* every $ref of the schema and of the definitions reached from it is a string
CC_WellFormed ==
  /\ CC_StringRefs(schemaArg)
  /\ \A id \in CC_Reachable : CC_StringRefs(Get(CC_Definitions, id))

\* convertSchema has returned a value
CC_Returned == op = "convertSchema" /\ pc = "done" /\ ~isThrow(ret)

\* pairs <<schema node, converted node>> of a finished conversion: the schema
\* and the result, or each definition of the batch and its result, and below
\* them the property schemas and their results.  References are left out.
CC_PropertyPairs(pair) ==
  {<<Get(Get(pair[1], "properties"), k), Get(Get(pair[2], "properties"), k)>> :
     k \in CC_Keys(Get(pair[1], "properties"))}

CC_RootPairs ==
  IF CC_Returned THEN {<<schemaArg, ret>>}
  ELSE IF op = "convertSchemaDefinitions" /\ pc = "done" /\ ~isThrow(ret)
  THEN {<<Get(CC_Definitions, id), Get(ret, id)>> : id \in CC_Keys(ret)}
  ELSE {}

CC_Pairs ==
  {pair \in CC_RootPairs \cup UNION {CC_PropertyPairs(root) : root \in CC_RootPairs} :
     isPlainObject(pair[1]) /\ ~Truthy(Get(pair[1], "$ref"))}

\* the type of a node once 'file' has become 'string'
C5_Type(schema) ==
  IF Get(schema, "type") = Str("file") THEN Str("string") ELSE Get(schema, "type")

\* the enum with null appended unless it holds null already
C5_WithNull(enum) ==
  IF \E i \in 1..Len(enum[2]) : enum[2][i] = Null THEN enum
  ELSE Arr(Append(enum[2], Null))

\* C5: for every node with a truthy x-nullable, a type that is set becomes
\* [type, 'null']; with no type and no enum the type becomes 'null'; with no
\* type and an enum the type stays unset; and, whether or not a type is set,
\* an enum array gets null appended unless it already contains null.
C5_NullableTypeAndEnum ==
  \A pair \in CC_Pairs :
    Truthy(Get(pair[1], "x-nullable")) =>
      LET type == C5_Type(pair[1])
          enum == Get(pair[1], "enum")
      IN /\ Truthy(type) => Get(pair[2], "type") = Arr(<<type, Str("null")>>)
         /\ ~Truthy(type) /\ enum = Undefined => Get(pair[2], "type") = Str("null")
         /\ ~Truthy(type) /\ enum # Undefined => Get(pair[2], "type") = type
         /\ isArray(enum) => Get(pair[2], "enum") = C5_WithNull(enum)
         /\ enum = Undefined => Get(pair[2], "enum") = Undefined

\* a nullable node with a type and an enum without null has been converted:
\* both the type and the enum carry null
C5_TypedEnumConverted ==
  /\ CC_Returned
  /\ schemaArg = Obj(<< <<"type", Str("string")>>, <<"enum", Arr(<<Str("a")>>)>>,
                        <<"x-nullable", Bool(TRUE)>> >>)
  /\ Get(ret, "type") = Arr(<<Str("string"), Str("null")>>)
  /\ Get(ret, "enum") = Arr(<<Str("a"), Null>>)

\* C5 as stated: when the type is set only the type branch fires and an enum
\* that is also present is left unchanged; without a type the enum gets null
\* unless it has it, and without type and enum the type becomes 'null'.
C5_EnumUntouchedWhenTyped ==
  \A pair \in CC_Pairs :
    Truthy(Get(pair[1], "x-nullable")) =>
      LET type == C5_Type(pair[1])
          enum == Get(pair[1], "enum")
      IN /\ Truthy(type) =>
              /\ Get(pair[2], "type") = Arr(<<type, Str("null")>>)
              /\ Get(pair[2], "enum") = enum
         /\ ~Truthy(type) /\ enum = Undefined => Get(pair[2], "type") = Str("null")
         /\ ~Truthy(type) /\ isArray(enum) => Get(pair[2], "enum") = C5_WithNull(enum)

\* C7: a node without $ref that carries an example key, whatever its value,
\* is converted to a node without example whose examples is the one-element
\* list of the example dereferenced against the Swagger root; a node without
\* an example key gets no examples key.
C7_ExampleFixup ==
  \A pair \in CC_Pairs :
    /\ ~HasOwn(pair[2], "example")
    /\ IF HasOwn(pair[1], "example")
       THEN Get(pair[2], "examples") =
              Arr(<<dereference(Get(pair[1], "example"), swaggerArg,
                                Undefined, Undefined)>>)
       ELSE ~HasOwn(pair[2], "examples")

\* the subtree of a value holds a $ref: in an object, or in an object or an
\* array below it, at any depth
RECURSIVE C6_HasReference(_)
C6_HasReference(v) ==
  \/ isPlainObject(v) /\ Truthy(Get(v, "$ref"))
  \/ \E child \in CC_Values(v) : C6_HasReference(child)

\* the schema is a bare {$ref: r} whose r resolves in the root, as does every
\* reference of the definitions reached from it, all of them strings
C6_BareResolvable ==
  /\ isPlainObject(schemaArg)
  /\ CC_Keys(schemaArg) = {"$ref"}
  /\ isString(Get(schemaArg, "$ref"))
  /\ ~isThrow(lookupReference(Get(schemaArg, "$ref")[2], rootArg, Undefined))
  /\ \A id \in CC_Reachable :
       \A r \in CC_Refs(Get(CC_Definitions, id)) : ~CC_Invalid(r)
  /\ CC_WellFormed

\* the copies in the result of the definitions reached from the schema
CC_Closure(definitions) ==
  /\ CC_Keys(definitions) = CC_Reachable
  /\ \A id \in CC_Reachable : CC_Own(definitions, id) = CC_Own(CC_Definitions, id)

\* C6: a bare {$ref: r} with a resolvable r, converted with copyDefinitions,
\* never fails: it returns the definition itself when that holds no $ref in
\* its subtree, whatever its arrays hold, and otherwise exactly
\* {allOf: [{$ref: r}], definitions: <copied closure>}.
C6_RootReferenceNormalized ==
  (op = "convertSchema" /\ pc = "done" /\ copyDefinitions /\ C6_BareResolvable) =>
    LET definition == Get(CC_Definitions, CC_IdOf(Get(schemaArg, "$ref")[2]))
    IN /\ ~isThrow(ret)
       /\ IF C6_HasReference(definition)
          THEN /\ ret = Obj(<< <<"allOf", Arr(<<schemaArg>>)>>,
                               <<"definitions", Get(ret, "definitions")>> >>)
               /\ CC_Closure(Get(ret, "definitions"))
          ELSE ret = definition

\* the keys of Swagger that are not keys of JSON Schema
C8_SwaggerOnly(key) ==
  \/ key \in {"discriminator", "readOnly", "xml", "externalDocs", "example"}
  \/ startsWith(key, "x-")

\* no node of the schema has a Swagger-only key
C8_Clean(schema) ==
  \A node \in CC_Nodes(schema) : \A key \in CC_Keys(node) : ~C8_SwaggerOnly(key)

\* C8: when the definitions of the root are free of Swagger-only keys, the
\* result of convertSchema, with or without copied definitions, has no node
\* at any depth with a key among discriminator, readOnly, xml, externalDocs,
\* example or starting with 'x-'; the names of properties and
\* patternProperties are kept whatever they are.
C8_NoSwaggerKeys ==
  (CC_Returned /\ \A id \in CC_Keys(CC_Definitions) : C8_Clean(Get(CC_Definitions, id))) =>
    /\ C8_Clean(ret)
    /\ \A id \in CC_Keys(Get(ret, "definitions")) :
         C8_Clean(Get(Get(ret, "definitions"), id))
    /\ ~Truthy(Get(schemaArg, "$ref")) =>
         \A k \in {"properties", "patternProperties"} :
           CC_Keys(Get(ret, k)) = CC_Keys(Get(schemaArg, k))

\* a schema with Swagger-only keys at several depths and properties named
\* like them has been converted and has kept the property names
C8_SwaggerKeysConverted ==
  /\ CC_Returned
  /\ Get(schemaArg, "readOnly") = Bool(TRUE)
  /\ ~C8_Clean(schemaArg)
  /\ CC_Keys(Get(ret, "properties")) = {"x-id", "example", "readOnly"}

\* every reference of the schema and of the definitions of the root
CC_AllRefs ==
  CC_Refs(schemaArg) \cup
  UNION {CC_Refs(Get(CC_Definitions, id)) : id \in CC_Keys(CC_Definitions)}

\* no node of the schema carries an example
CC_NoExample(schema) == \A node \in CC_Nodes(schema) : ~HasOwn(node, "example")

\* the reference is invalid when its whole path is looked up
C4_InvalidPath(reference) ==
  LET parts == split(reference, "/")
  IN \/ parts[1] # "#"
     \/ Len(parts) < 2
     \/ parts[2] # "definitions"
     \/ C9_Follow(CC_Definitions, SubSeq(parts, 3, Len(parts))) = Undefined

\* the schema is itself a reference
C4_Bare(schema) == isString(Get(schema, "$ref")) /\ Truthy(Get(schema, "$ref"))

\* the references the loop of lines 304-311 looks up: those of the schema and
\* of the definitions reached from it
C4_Looked ==
  CC_Refs(schemaArg) \cup UNION {CC_Refs(CC_Named(id)) : id \in CC_Reachable}

\* a call of convertSchema has ended whose root is {definitions: {...}} and
\* whose schema, and the definitions reached from it, carry no example and
\* hold under every keyword what JSON Schema puts there
C4_Converted ==
  /\ op = "convertSchema" /\ pc = "done"
  /\ isPlainObject(rootArg) /\ isPlainObject(CC_Definitions)
  /\ CC_NoExample(schemaArg) /\ CC_Typed(schemaArg) /\ CC_WellFormed
  /\ \A id \in CC_Reachable : CC_Typed(CC_Named(id))

\* convertSchemaDefinitions has ended on definitions that _.forEach walks by
\* their own keys, each a schema as above
C4_BatchConverted ==
  /\ op = "convertSchemaDefinitions" /\ pc = "done"
  /\ isPlainObject(CC_Definitions) /\ ~isArrayLike(CC_Definitions)
  /\ \A schema \in CC_Values(CC_Definitions) :
       CC_NoExample(schema) /\ CC_Typed(schema) /\ CC_StringRefs(schema)

C1_DefinitionClosure ==
  (CC_Returned /\ copyDefinitions /\ CC_WellFormed /\ CC_Refs(ret) # {}) =>
    LET definitions == Get(ret, "definitions")
    IN /\ CC_Closure(definitions)
       /\ \A r \in CC_Refs(ret) \cup
                   UNION {CC_Refs(Get(definitions, id)) : id \in CC_Keys(definitions)} :
            ~CC_Invalid(r) /\ CC_IdOf(r) \in CC_Keys(definitions)

\* a call with copyDefinitions in which every reference is valid
C2_Valid ==
  /\ op = "convertSchema" /\ copyDefinitions
  /\ \A r \in CC_AllRefs : ~CC_Invalid(r)

\* one iteration of the loop: an insertion adds one id that was not a key,
\* the one of the reference taken, and stores the definition of the root
\* (root.definitions itself for '#/definitions', which names no id); without
\* an insertion the worklist only loses the reference taken; the definitions
\* stored before stay, with their values
C2_Iteration ==
  (pc = "loop" /\ copyDefinitions /\ references # <<>>) =>
    LET before == Get(result, "definitions")
        after == Get(result, "definitions")'
        inserted == CC_Keys(after) \ CC_Keys(before)
    IN /\ Cardinality(inserted) <= 1
       /\ \A id \in inserted :
            /\ id = CC_IdOf(Last(references)[2])
            /\ CC_Own(after, id) =
                 IF Len(split(Last(references)[2], "/")) = 2 THEN CC_Definitions
                 ELSE CC_Own(CC_Definitions, id)
       /\ inserted = {} =>
            \/ references' = Front(references)
            \/ references' = references /\ isThrow(ret')
       /\ \A id \in CC_Keys(before) :
            id \in CC_Keys(after) /\ CC_Own(after, id) = CC_Own(before, id)

\* C2: when every reference is valid the loop of convertSchema reaches an
\* empty worklist, cyclic definitions included; each id is inserted into
\* result.definitions at most once, references are pushed only by that
\* insertion, and an id already present is skipped with its value unchanged.
C2_WorklistTerminates ==
  /\ C2_Valid ~> (pc = "done" /\ references = <<>>)
  /\ [][C2_Iteration]_vars

\* the loop has finished on mutually referencing definitions: four
\* definitions stored, in the order of their insertion, an empty worklist
C2_CycleCopiedOnce ==
  /\ op = "convertSchema" /\ copyDefinitions /\ pc = "done"
  /\ schemaArg = Ref("A")
  /\ LET stored == Get(result, "definitions")[2]
     IN [i \in 1..Len(stored) |-> stored[i][1]] = <<"A", "C", "Node", "B">>
  /\ references = <<>>

====
